---- MODULE Spec2Model ----
(***************************************************************************)
(* Model of pkg/gcp/gcs/gcs.go: the gsutil facade of the release tooling.  *)
(*                                                                         *)
(* Go strings are modelled as sequences of one-character strings, so that  *)
(* strings.TrimPrefix, string concatenation and filepath.Join/Clean are    *)
(* computed character by character as the Go code computes them.           *)
(* A Go error is a sequence of messages, outermost context first; the nil  *)
(* error is the empty sequence.  A *bool is one of "true", "false", "nil". *)
(*                                                                         *)
(* The facade keeps no state between calls.  A behaviour of the model is   *)
(* one call: the caller is "ready", picks an operation and its inputs      *)
(* (together with what os.Stat and gcp.GSUtil answer during the call), and *)
(* the call either returns (pc = "returned") or dereferences a nil pointer *)
(* and panics (pc = "panicked").                                           *)
(***************************************************************************)
EXTENDS Integers, Sequences, FiniteSets, TLC

VARIABLES pc, op, args, invocations, ret

vars == <<pc, op, args, invocations, ret>>

(***************************************************************************)
(* Bounds of the model.                                                    *)
(***************************************************************************)
\* longest token sequence a path handed to NormalizeGCSPath is built from
MaxParts == 3
\* most leading "gs://" prefixes a bucket path handed to a copy carries
MaxPrefixes == 2

(***************************************************************************)
(* String literals of the package.                                         *)
(***************************************************************************)
GcsPrefix == <<"g", "s", ":", "/", "/">>
concurrentFlag == <<"-", "m">>
recursiveFlag == <<"-", "r">>
noClobberFlag == <<"-", "n">>
cpCommand == <<"c", "p">>
rsyncCommand == <<"r", "s", "y", "n", "c">>
lsCommand == <<"l", "s">>
releasePathType == <<"r", "e", "l", "e", "a", "s", "e">>
markerPathType == <<"m", "a", "r", "k", "e", "r">>
fastSegment == <<"f", "a", "s", "t">>
Separator == "/"

\* the nil error
Nil == <<>>
errSourceMissing == <<"source directory does not exist">>
msgGcsCopy == "gcs copy"
msgRsync == "running gsutil rsync"

(***************************************************************************)
(* strings and errors helpers used by the package.                         *)
(***************************************************************************)
HasPrefix(s, prefix) ==
  /\ Len(s) >= Len(prefix)
  /\ SubSeq(s, 1, Len(prefix)) = prefix

\* strings.TrimPrefix: removes ONE leading occurrence of prefix, if any
TrimPrefix(s, prefix) ==
  IF HasPrefix(s, prefix) THEN SubSeq(s, Len(prefix) + 1, Len(s)) ELSE s

\* errors.Wrap: nil stays nil, otherwise the message is put in front
Wrap(err, message) ==
  IF err = Nil THEN Nil ELSE <<message>> \o err

(***************************************************************************)
(* filepath.Join and filepath.Clean (Unix), as getPath calls them.         *)
(***************************************************************************)
\* the ".." case of Clean: drop the last element written to the buffer
RECURSIVE Backtrack(_, _, _)
Backtrack(buf, w, dotdot) ==
  IF w > dotdot /\ buf[w + 1] # Separator
  THEN Backtrack(buf, w - 1, dotdot)
  ELSE SubSeq(buf, 1, w)

\* index (0-based) of the end of the path element that starts at r
RECURSIVE ElemEnd(_, _)
ElemEnd(path, r) ==
  IF r < Len(path) /\ path[r + 1] # Separator THEN ElemEnd(path, r + 1) ELSE r

\* the main loop of Clean: r is the 0-based read index, buf what was written
RECURSIVE CleanLoop(_, _, _, _, _)
CleanLoop(path, rooted, r, buf, dotdot) ==
  LET n == Len(path)
      w == Len(buf)
  IN  IF r >= n THEN buf
      ELSE IF path[r + 1] = Separator
        THEN CleanLoop(path, rooted, r + 1, buf, dotdot)
      ELSE IF path[r + 1] = "." /\ (r + 1 = n \/ path[r + 2] = Separator)
        THEN CleanLoop(path, rooted, r + 1, buf, dotdot)
      ELSE IF /\ path[r + 1] = "."
              /\ path[r + 2] = "."
              /\ (r + 2 = n \/ path[r + 3] = Separator)
        THEN IF w > dotdot
               THEN CleanLoop(path, rooted, r + 2,
                              Backtrack(buf, w - 1, dotdot), dotdot)
             ELSE IF ~rooted
               THEN LET b2 == (IF w > 0 THEN Append(buf, Separator) ELSE buf)
                                \o <<".", ".">>
                    IN  CleanLoop(path, rooted, r + 2, b2, Len(b2))
             ELSE CleanLoop(path, rooted, r + 2, buf, dotdot)
      ELSE LET b1 == IF (rooted /\ w # 1) \/ (~rooted /\ w # 0)
                     THEN Append(buf, Separator) ELSE buf
               e == ElemEnd(path, r)
           IN  CleanLoop(path, rooted, e, b1 \o SubSeq(path, r + 1, e), dotdot)

Clean(path) ==
  IF path = <<>> THEN <<".">>
  ELSE LET rooted == path[1] = Separator
           out == CleanLoop(path, rooted,
                            IF rooted THEN 1 ELSE 0,
                            IF rooted THEN <<Separator>> ELSE <<>>,
                            IF rooted THEN 1 ELSE 0)
       IN  IF out = <<>> THEN <<".">> ELSE out

\* strings.Join(elems, "/")
RECURSIVE StringsJoin(_)
StringsJoin(elems) ==
  IF elems = <<>> THEN <<>>
  ELSE IF Len(elems) = 1 THEN elems[1]
  ELSE elems[1] \o <<Separator>> \o StringsJoin(Tail(elems))

\* filepath.Join: leading empty elements are skipped, the rest is joined
\* with the separator and cleaned; all elements empty gives ""
FilepathJoin(elems) ==
  LET nonEmpty == {i \in 1..Len(elems) : elems[i] # <<>>}
  IN  IF nonEmpty = {} THEN <<>>
      ELSE LET first == CHOOSE i \in nonEmpty : \A j \in nonEmpty : i <= j
           IN  Clean(StringsJoin(SubSeq(elems, first, Len(elems))))

(***************************************************************************)
(* NormalizeGCSPath                                                        *)
(***************************************************************************)
\* a slip that prepends the prefix without trimming an existing one
NormalizeGCSPathNoTrim(gcsPath) ==
  GcsPrefix \o gcsPath

NormalizeGCSPath(gcsPath) ==
  GcsPrefix \o TrimPrefix(gcsPath, GcsPrefix)

(***************************************************************************)
(* getPath, GetReleasePath, GetMarkerPath                                  *)
(***************************************************************************)
\* a slip that forgets the pathType test
getPathAnyType(bucket, buildType, gcsSuffix, version, pathType, fast) ==
  LET p1 == FilepathJoin(<<bucket, buildType>>)
      p2 == IF gcsSuffix # <<>> THEN p1 \o <<"-">> \o gcsSuffix ELSE p1
      p3 == IF fast THEN FilepathJoin(<<p2, fastSegment>>) ELSE p2
  IN  IF version # <<>> THEN FilepathJoin(<<p3, version>>) ELSE p3

getPath(bucket, buildType, gcsSuffix, version, pathType, fast) ==
  LET p1 == FilepathJoin(<<bucket, buildType>>)
      p2 == IF gcsSuffix # <<>> THEN p1 \o <<"-">> \o gcsSuffix ELSE p1
  IN  IF pathType = releasePathType
      THEN LET p3 == IF fast THEN FilepathJoin(<<p2, fastSegment>>) ELSE p2
           IN  IF version # <<>> THEN FilepathJoin(<<p3, version>>) ELSE p3
      ELSE p2

GetReleasePath(bucket, buildType, gcsSuffix, version, fast) ==
  getPath(bucket, buildType, gcsSuffix, version, releasePathType, fast)

GetMarkerPath(bucket, buildType, gcsSuffix) ==
  getPath(bucket, buildType, gcsSuffix, <<>>, markerPathType, FALSE)

(***************************************************************************)
(* Options: four *bool toggles behind a pointer that may itself be nil.    *)
(***************************************************************************)
BoolPtr == {"true", "false", "nil"}

\* a nil *Options
NilOptions ==
  [isNil |-> TRUE, Concurrent |-> "nil", Recursive |-> "nil",
   NoClobber |-> "nil", AllowMissing |-> "nil"]

\* every *Options a caller can pass
OptionsValues ==
  {NilOptions} \cup
  [isNil : {FALSE}, Concurrent : BoolPtr, Recursive : BoolPtr,
   NoClobber : BoolPtr, AllowMissing : BoolPtr]

DefaultGCSCopyOptions ==
  [isNil |-> FALSE, Concurrent |-> "true", Recursive |-> "true",
   NoClobber |-> "true", AllowMissing |-> "true"]

\* *opts.Field panics when opts is nil or the field is nil
DerefPanics(opts, field) ==
  opts.isNil \/ opts[field] = "nil"

(***************************************************************************)
(* What a call leaves behind: how it ended, the gcp.GSUtil invocations it  *)
(* made (argument list and the error GSUtil answered), and its error.      *)
(***************************************************************************)
Returned(invs, err) ==
  [pc |-> "returned", invocations |-> invs, err |-> err]

Panicked(invs) ==
  [pc |-> "panicked", invocations |-> invs, err |-> Nil]

\* one run of gcp.GSUtil(args...) that answers toolErr
GSUtil(cmdArgs, toolErr) ==
  [args |-> cmdArgs, err |-> toolErr]

(***************************************************************************)
(* bucketCopy                                                              *)
(***************************************************************************)
\* a slip that appends the no-clobber flag before the recursive flag
bucketCopyFlagsSwapped(src, dst, opts, toolErr) ==
  IF \/ DerefPanics(opts, "Concurrent")
     \/ DerefPanics(opts, "Recursive")
     \/ DerefPanics(opts, "NoClobber")
  THEN Panicked(<<>>)
  ELSE LET a0 == IF opts.Concurrent = "true" THEN <<concurrentFlag>> ELSE <<>>
           a1 == Append(a0, cpCommand)
           a2 == IF opts.NoClobber = "true" THEN Append(a1, noClobberFlag) ELSE a1
           a3 == IF opts.Recursive = "true" THEN Append(a2, recursiveFlag) ELSE a2
           a4 == a3 \o <<src, dst>>
       IN  Returned(<<GSUtil(a4, toolErr)>>, Wrap(toolErr, msgGcsCopy))

\* a slip that runs the tool a second time after a failure and reports the
\* second run as a success
bucketCopyRetry(src, dst, opts, toolErr) ==
  IF \/ DerefPanics(opts, "Concurrent")
     \/ DerefPanics(opts, "Recursive")
     \/ DerefPanics(opts, "NoClobber")
  THEN Panicked(<<>>)
  ELSE LET a0 == IF opts.Concurrent = "true" THEN <<concurrentFlag>> ELSE <<>>
           a1 == Append(a0, cpCommand)
           a2 == IF opts.Recursive = "true" THEN Append(a1, recursiveFlag) ELSE a1
           a3 == IF opts.NoClobber = "true" THEN Append(a2, noClobberFlag) ELSE a2
           a4 == a3 \o <<src, dst>>
       IN  IF toolErr = Nil
           THEN Returned(<<GSUtil(a4, Nil)>>, Nil)
           ELSE Returned(<<GSUtil(a4, toolErr), GSUtil(a4, Nil)>>, Nil)

bucketCopy(src, dst, opts, toolErr) ==
  IF DerefPanics(opts, "Concurrent") THEN Panicked(<<>>)
  ELSE LET a0 == IF opts.Concurrent = "true" THEN <<concurrentFlag>> ELSE <<>>
           a1 == Append(a0, cpCommand)
       IN  IF DerefPanics(opts, "Recursive") THEN Panicked(<<>>)
           ELSE LET a2 == IF opts.Recursive = "true"
                          THEN Append(a1, recursiveFlag) ELSE a1
                IN  IF DerefPanics(opts, "NoClobber") THEN Panicked(<<>>)
                    ELSE LET a3 == IF opts.NoClobber = "true"
                                   THEN Append(a2, noClobberFlag) ELSE a2
                             a4 == a3 \o <<src, dst>>
                         IN  Returned(<<GSUtil(a4, toolErr)>>,
                                      Wrap(toolErr, msgGcsCopy))

(***************************************************************************)
(* The copy entry points, RsyncRecursive and PathExists.  srcExists is     *)
(* what os.Stat(src) finds, toolErr what gcp.GSUtil answers if it is run.  *)
(***************************************************************************)
\* a slip that uploads although the source is missing
CopyToGCSNoStat(src, gcsPath, opts, srcExists, toolErr) ==
  bucketCopy(src, NormalizeGCSPath(gcsPath), opts, toolErr)

CopyToGCS(src, gcsPath, opts, srcExists, toolErr) ==
  LET normalized == NormalizeGCSPath(gcsPath)
  IN  IF ~srcExists
      THEN IF DerefPanics(opts, "AllowMissing") THEN Panicked(<<>>)
           ELSE IF opts.AllowMissing = "true" THEN Returned(<<>>, Nil)
           ELSE Returned(<<>>, errSourceMissing)
      ELSE bucketCopy(src, normalized, opts, toolErr)

CopyToLocal(gcsPath, dst, opts, toolErr) ==
  bucketCopy(NormalizeGCSPath(gcsPath), dst, opts, toolErr)

CopyBucketToBucket(src, dst, opts, toolErr) ==
  bucketCopy(NormalizeGCSPath(src), NormalizeGCSPath(dst), opts, toolErr)

\* a slip that normalizes the paths as the copy entry points do
RsyncRecursiveNormalizing(src, dst, toolErr) ==
  Returned(<<GSUtil(<<concurrentFlag, rsyncCommand, recursiveFlag,
                      NormalizeGCSPath(src), NormalizeGCSPath(dst)>>, toolErr)>>,
           Wrap(toolErr, msgRsync))

RsyncRecursive(src, dst, toolErr) ==
  Returned(<<GSUtil(<<concurrentFlag, rsyncCommand, recursiveFlag, src, dst>>,
                    toolErr)>>,
           Wrap(toolErr, msgRsync))

\* a slip that wraps the listing error like the other operations do
PathExistsWrapping(gcsPath, toolErr) ==
  [pc |-> "returned",
   invocations |-> <<GSUtil(<<lsCommand, gcsPath>>, toolErr)>>,
   exists |-> toolErr = Nil,
   err |-> Wrap(toolErr, "gcs ls")]

PathExists(gcsPath, toolErr) ==
  [pc |-> "returned",
   invocations |-> <<GSUtil(<<lsCommand, gcsPath>>, toolErr)>>,
   exists |-> toolErr = Nil,
   err |-> toolErr]

(***************************************************************************)
(* The inputs a caller passes and the answers of the environment.          *)
(***************************************************************************)
\* pieces the paths handed to NormalizeGCSPath are built from
Tokens ==
  {GcsPrefix, <<"g", "s", ":", "/">>, <<"b">>, <<"/">>}

RECURSIVE TokenPaths(_)
TokenPaths(k) ==
  IF k = 0 THEN {<<>>}
  ELSE LET shorter == TokenPaths(k - 1)
       IN  shorter \cup {p \o t : p \in shorter, t \in Tokens}

RECURSIVE Prefixes(_)
Prefixes(k) ==
  IF k = 0 THEN <<>> ELSE GcsPrefix \o Prefixes(k - 1)

\* bucket paths handed to the copy, rsync and listing operations
BucketPaths ==
  {Prefixes(k) \o name : k \in 0..MaxPrefixes, name \in {<<>>, <<"b">>}}

LocalPaths ==
  {<<"/", "t", "m", "p">>, <<"d">>}

\* what gcp.GSUtil answers: nil or an error
ToolErrors ==
  {<<"exit status 1">>, <<"executable file not found">>}

ToolAnswers ==
  {Nil} \cup ToolErrors

\* well-formed inputs of GetReleasePath
ReleaseBuckets ==
  {<<"b", "u", "c", "k", "e", "t">>, <<"g", "s", ":", "/", "/", "b", "u", "c", "k", "e", "t">>}

BuildTypes ==
  {<<"c", "i">>, releasePathType}

Suffixes ==
  {<<>>, <<"f", "a", "s", "t", "-", "b", "u", "i", "l", "d">>}

Versions ==
  {<<>>, <<"v", "1", ".", "2", ".", "3">>}

\* any inputs of the shared builder, empty and dotted elements included
AnyBuckets ==
  ReleaseBuckets \cup {<<>>, <<"/">>, <<"a", "/", ".", ".", "/", "b", "u", "c", "k", "e", "t", "/">>}

AnyBuildTypes ==
  BuildTypes \cup {<<>>, <<".">>, <<".", ".">>}

AnyVersions ==
  Versions \cup {<<".", ".">>, <<"/", "v">>}

PathTypes ==
  {releasePathType, markerPathType}

(***************************************************************************)
(* The state machine: one call of one operation.                           *)
(***************************************************************************)
NoResult == [none |-> TRUE]

Init ==
  /\ pc = "ready"
  /\ op = "none"
  /\ args = [none |-> TRUE]
  /\ invocations = <<>>
  /\ ret = NoResult

\* the four path functions run no tool and return a path
CallNormalizeGCSPath(gcsPath) ==
  /\ pc = "ready"
  /\ pc' = "returned"
  /\ op' = "NormalizeGCSPath"
  /\ args' = [gcsPath |-> gcsPath]
  /\ invocations' = <<>>
  /\ ret' = [path |-> NormalizeGCSPath(gcsPath)]

CallGetReleasePath(bucket, buildType, gcsSuffix, version, fast) ==
  /\ pc = "ready"
  /\ pc' = "returned"
  /\ op' = "GetReleasePath"
  /\ args' = [bucket |-> bucket, buildType |-> buildType,
              gcsSuffix |-> gcsSuffix, version |-> version, fast |-> fast]
  /\ invocations' = <<>>
  /\ ret' = [path |-> GetReleasePath(bucket, buildType, gcsSuffix, version,
                                     fast)]

CallGetMarkerPath(bucket, buildType, gcsSuffix) ==
  /\ pc = "ready"
  /\ pc' = "returned"
  /\ op' = "GetMarkerPath"
  /\ args' = [bucket |-> bucket, buildType |-> buildType,
              gcsSuffix |-> gcsSuffix]
  /\ invocations' = <<>>
  /\ ret' = [path |-> GetMarkerPath(bucket, buildType, gcsSuffix)]

CallGetPath(bucket, buildType, gcsSuffix, version, pathType, fast) ==
  /\ pc = "ready"
  /\ pc' = "returned"
  /\ op' = "getPath"
  /\ args' = [bucket |-> bucket, buildType |-> buildType,
              gcsSuffix |-> gcsSuffix, version |-> version,
              pathType |-> pathType, fast |-> fast]
  /\ invocations' = <<>>
  /\ ret' = [path |-> getPath(bucket, buildType, gcsSuffix, version,
                              pathType, fast)]

\* the copy and rsync operations return an error (possibly nil) or panic,
\* and a call that panics returns nothing
CallCopyToGCS(src, gcsPath, opts, srcExists, toolErr) ==
  LET out == CopyToGCS(src, gcsPath, opts, srcExists, toolErr)
  IN  /\ pc = "ready"
      /\ pc' = out.pc
      /\ op' = "CopyToGCS"
      /\ args' = [src |-> src, gcsPath |-> gcsPath, opts |-> opts,
                  srcExists |-> srcExists]
      /\ invocations' = out.invocations
      /\ ret' = IF out.pc = "returned" THEN [err |-> out.err] ELSE NoResult

CallCopyToLocal(gcsPath, dst, opts, toolErr) ==
  LET out == CopyToLocal(gcsPath, dst, opts, toolErr)
  IN  /\ pc = "ready"
      /\ pc' = out.pc
      /\ op' = "CopyToLocal"
      /\ args' = [gcsPath |-> gcsPath, dst |-> dst, opts |-> opts]
      /\ invocations' = out.invocations
      /\ ret' = IF out.pc = "returned" THEN [err |-> out.err] ELSE NoResult

CallCopyBucketToBucket(src, dst, opts, toolErr) ==
  LET out == CopyBucketToBucket(src, dst, opts, toolErr)
  IN  /\ pc = "ready"
      /\ pc' = out.pc
      /\ op' = "CopyBucketToBucket"
      /\ args' = [src |-> src, dst |-> dst, opts |-> opts]
      /\ invocations' = out.invocations
      /\ ret' = IF out.pc = "returned" THEN [err |-> out.err] ELSE NoResult

CallRsyncRecursive(src, dst, toolErr) ==
  LET out == RsyncRecursive(src, dst, toolErr)
  IN  /\ pc = "ready"
      /\ pc' = out.pc
      /\ op' = "RsyncRecursive"
      /\ args' = [src |-> src, dst |-> dst]
      /\ invocations' = out.invocations
      /\ ret' = [err |-> out.err]

CallPathExists(gcsPath, toolErr) ==
  LET out == PathExists(gcsPath, toolErr)
  IN  /\ pc = "ready"
      /\ pc' = out.pc
      /\ op' = "PathExists"
      /\ args' = [gcsPath |-> gcsPath]
      /\ invocations' = out.invocations
      /\ ret' = [exists |-> out.exists, err |-> out.err]

Next ==
  \/ \E p \in TokenPaths(MaxParts) : CallNormalizeGCSPath(p)
  \/ \E b \in ReleaseBuckets, t \in BuildTypes, s \in Suffixes,
        v \in Versions, f \in BOOLEAN :
       CallGetReleasePath(b, t, s, v, f)
  \/ \E b \in AnyBuckets, t \in AnyBuildTypes, s \in Suffixes :
       CallGetMarkerPath(b, t, s)
  \/ \E b \in AnyBuckets, t \in AnyBuildTypes, s \in Suffixes,
        v \in AnyVersions, k \in PathTypes, f \in BOOLEAN :
       CallGetPath(b, t, s, v, k, f)
  \/ \E src \in LocalPaths, dst \in BucketPaths, o \in OptionsValues,
        e \in BOOLEAN, t \in ToolAnswers :
       CallCopyToGCS(src, dst, o, e, t)
  \/ \E src \in BucketPaths, dst \in LocalPaths, o \in OptionsValues,
        t \in ToolAnswers :
       CallCopyToLocal(src, dst, o, t)
  \/ \E src \in BucketPaths, dst \in BucketPaths, o \in OptionsValues,
        t \in ToolAnswers :
       CallCopyBucketToBucket(src, dst, o, t)
  \/ \E src \in BucketPaths, dst \in BucketPaths, t \in ToolAnswers :
       CallRsyncRecursive(src, dst, t)
  \/ \E p \in BucketPaths, t \in ToolAnswers : CallPathExists(p, t)

Spec == Init /\ [][Next]_vars

(***************************************************************************)
(* Helpers of the properties below.                                        *)
(***************************************************************************)
CopyOps == {"CopyToGCS", "CopyToLocal", "CopyBucketToBucket"}

ToolOps == CopyOps \cup {"RsyncRecursive", "PathExists"}

\* the three gsutil toggles of the options of the call are all set
TogglesSet ==
  /\ ~args.opts.isNil
  /\ args.opts.Concurrent # "nil"
  /\ args.opts.Recursive # "nil"
  /\ args.opts.NoClobber # "nil"

\* the flags the documented order puts before and after "cp"
FlagIf(toggle, flag) ==
  IF toggle = "true" THEN <<flag>> ELSE <<>>

\* the source and destination the entry point of the call hands to the tool
SentSrc ==
  IF op = "CopyToGCS" THEN args.src
  ELSE IF op = "CopyToLocal" THEN GcsPrefix \o TrimPrefix(args.gcsPath, GcsPrefix)
  ELSE GcsPrefix \o TrimPrefix(args.src, GcsPrefix)

SentDst ==
  IF op = "CopyToLocal" THEN args.dst
  ELSE IF op = "CopyToGCS" THEN GcsPrefix \o TrimPrefix(args.gcsPath, GcsPrefix)
  ELSE GcsPrefix \o TrimPrefix(args.dst, GcsPrefix)

\* the last n elements of a sequence
LastN(seq, n) ==
  SubSeq(seq, Len(seq) - n + 1, Len(seq))

(***************************************************************************)
(* Properties.                                                             *)
(***************************************************************************)

\* C1: NormalizeGCSPath is idempotent: normalizing the path a call of
\* NormalizeGCSPath returned gives that same path again, for every input
\* (empty, the bare prefix, one or more leading prefixes).
C1_NormalizeIdempotent ==
  op = "NormalizeGCSPath" => NormalizeGCSPath(ret.path) = ret.path

\* C1 witness: a path that starts with the prefix twice was normalized and
\* normalizing the result again changes nothing.
C1_Witness ==
  /\ op = "NormalizeGCSPath"
  /\ args.gcsPath = GcsPrefix \o GcsPrefix \o <<"b">>
  /\ NormalizeGCSPath(ret.path) = ret.path

\* C2: the path NormalizeGCSPath returns starts with "gs://" exactly once:
\* what follows the leading prefix does not start with "gs://" again,
\* however many prefixes the input carried.
C2_PrefixExactlyOnce ==
  op = "NormalizeGCSPath" =>
    /\ HasPrefix(ret.path, GcsPrefix)
    /\ ~HasPrefix(SubSeq(ret.path, Len(GcsPrefix) + 1, Len(ret.path)),
                  GcsPrefix)

\* C3: GetReleasePath returns the bucket string unchanged followed by
\* /<buildType>[-<suffix>][/fast][/<version>], also for a bucket that
\* carries the "gs://" prefix (the double slash is preserved).
C3_ReleasePathKeepsBucket ==
  op = "GetReleasePath" =>
    ret.path = args.bucket \o <<"/">> \o args.buildType
               \o (IF args.gcsSuffix # <<>>
                   THEN <<"-">> \o args.gcsSuffix ELSE <<>>)
               \o (IF args.fast THEN <<"/">> \o fastSegment ELSE <<>>)
               \o (IF args.version # <<>>
                   THEN <<"/">> \o args.version ELSE <<>>)

\* C4: getPath called with pathType "marker" returns the joined bucket and
\* build type with the optional -suffix and nothing more, whatever version
\* and fast are; that is the path of GetMarkerPath and of GetReleasePath
\* with an empty version and fast off.
C4_MarkerHasNoVersion ==
  (op = "getPath" /\ args.pathType = markerPathType) =>
    /\ ret.path = FilepathJoin(<<args.bucket, args.buildType>>)
                  \o (IF args.gcsSuffix # <<>>
                      THEN <<"-">> \o args.gcsSuffix ELSE <<>>)
    /\ ret.path = GetMarkerPath(args.bucket, args.buildType, args.gcsSuffix)
    /\ ret.path = GetReleasePath(args.bucket, args.buildType, args.gcsSuffix,
                                 <<>>, FALSE)

\* C4 witness: the shared builder built a marker path although a version
\* and fast were supplied.
C4_Witness ==
  /\ op = "getPath"
  /\ args.pathType = markerPathType
  /\ args.version = <<"v", "1", ".", "2", ".", "3">>
  /\ args.fast
  /\ args.bucket = <<"b", "u", "c", "k", "e", "t">>
  /\ ret.path = GetMarkerPath(args.bucket, args.buildType, args.gcsSuffix)

C6_ArgumentOrder ==
  (op \in CopyOps /\ TogglesSet /\ (op = "CopyToGCS" => args.srcExists)) =>
    /\ Len(invocations) = 1
    /\ LET sent == invocations[1].args
           flags == Len(sent) - 2
       IN  /\ flags >= 1
           /\ LastN(sent, 2) = <<SentSrc, SentDst>>
           /\ SubSeq(sent, 1, flags) =
                (IF args.opts.Concurrent = "true" THEN <<concurrentFlag>>
                 ELSE <<>>)
                \o <<cpCommand>>
                \o (IF args.opts.Recursive = "true" THEN <<recursiveFlag>>
                    ELSE <<>>)
                \o (IF args.opts.NoClobber = "true" THEN <<noClobberFlag>>
                    ELSE <<>>)
           /\ \A i \in 1..Len(sent) : sent[i] # <<>> \/ i > flags

\* C6 witness: a copy with Concurrent off, Recursive on, NoClobber on and
\* AllowMissing unset ran the tool with four arguments.
C6_Witness ==
  /\ op = "CopyToLocal"
  /\ ~args.opts.isNil
  /\ args.opts.Concurrent = "false"
  /\ args.opts.Recursive = "true"
  /\ args.opts.NoClobber = "true"
  /\ args.opts.AllowMissing = "nil"
  /\ Len(invocations) = 1
  /\ invocations[1].args =
       <<cpCommand, recursiveFlag, noClobberFlag,
         GcsPrefix \o <<"b">>, args.dst>>

\* C7: PathExists runs "ls" once on the path as given; it returns true
\* with a nil error exactly when the listing succeeded, and false with the
\* listing's own error, unwrapped, when it failed.
C7_PathExists ==
  op = "PathExists" =>
    /\ pc = "returned"
    /\ Len(invocations) = 1
    /\ invocations[1].args = <<lsCommand, args.gcsPath>>
    /\ ret.exists <=> (invocations[1].err = Nil)
    /\ ret.err = invocations[1].err
    /\ ret.exists <=> (ret.err = Nil)

\* C7 witness: the listing of an unprefixed path failed and PathExists
\* returned false with that error.
C7_Witness ==
  /\ op = "PathExists"
  /\ args.gcsPath = <<"b">>
  /\ invocations[1].err = <<"exit status 1">>
  /\ ~ret.exists
  /\ ret.err = <<"exit status 1">>

\* C8: no operation panics: every call, also one given unset toggles or a
\* nil Options, ends by returning to its caller.
C8_NoPanic ==
  pc # "panicked"

\* C9 (as claimed): every call of the five tool operations that returns has
\* run the tool exactly once, and its error is nil exactly when the tool's
\* was.
C9_ExactlyOneInvocation ==
  (op \in ToolOps /\ pc = "returned") =>
    /\ Len(invocations) = 1
    /\ (ret.err = Nil) <=> (invocations[1].err = Nil)

\* C9 (amended): a call of the five tool operations runs the tool at most
\* once; it runs it zero times exactly when CopyToGCS found the source
\* missing (the result is then nil or the missing-source error, decided by
\* AllowMissing) or when the call panicked on a nil option before reaching
\* the tool.  A call that ran the tool returns, and returns the tool's
\* error wrapped with "gcs copy" (copies) or "running gsutil rsync", or
\* unwrapped (PathExists); nil stays nil, so it fails iff the tool failed.
C9_AtMostOneInvocation ==
  op \in ToolOps =>
    /\ Len(invocations) <= 1
    /\ (Len(invocations) = 0) <=>
         (pc = "panicked" \/ (op = "CopyToGCS" /\ ~args.srcExists))
    /\ (op = "CopyToGCS" /\ ~args.srcExists /\ pc = "returned") =>
         ret.err = (IF args.opts.AllowMissing = "true" THEN Nil
                    ELSE errSourceMissing)
    /\ Len(invocations) = 1 =>
         /\ pc = "returned"
         /\ (ret.err = Nil) <=> (invocations[1].err = Nil)
         /\ invocations[1].err # Nil =>
              ret.err = (IF op \in CopyOps
                           THEN <<msgGcsCopy>> \o invocations[1].err
                         ELSE IF op = "RsyncRecursive"
                           THEN <<msgRsync>> \o invocations[1].err
                         ELSE invocations[1].err)

\* C9 witness: the tool run by a bucket-to-bucket copy failed and the copy
\* returned that error wrapped with "gcs copy", after one invocation.
C9_Witness ==
  /\ op = "CopyBucketToBucket"
  /\ pc = "returned"
  /\ Len(invocations) = 1
  /\ invocations[1].err = <<"exit status 1">>
  /\ ret.err = <<msgGcsCopy, "exit status 1">>

\* C10: the tool receives the normalized bucket-side paths of the copy
\* entry points and their local paths unchanged, and from RsyncRecursive
\* exactly ["-m", "rsync", "-r", src, dst] with both paths as given.
C10_NormalizationFrame ==
  /\ (op \in CopyOps /\ Len(invocations) >= 1) =>
       LastN(invocations[1].args, 2) = <<SentSrc, SentDst>>
  /\ op = "RsyncRecursive" =>
       /\ Len(invocations) = 1
       /\ invocations[1].args =
            <<concurrentFlag, rsyncCommand, recursiveFlag, args.src, args.dst>>

\* C10 witness: RsyncRecursive handed an unprefixed source and a prefixed
\* destination to the tool exactly as it got them.
C10_Witness ==
  /\ op = "RsyncRecursive"
  /\ args.src = <<"b">>
  /\ args.dst = GcsPrefix \o <<"b">>
  /\ invocations[1].args[4] = <<"b">>
  /\ invocations[1].args[5] = GcsPrefix \o <<"b">>

====
